---- MODULE Spec2Model ----
(***************************************************************************)
(* rs-str2bool: fixed ASCII tokens interpreted as booleans.                *)
(*                                                                         *)
(* Two matchers are modelled, both from the source:                        *)
(*   ascii_byte.rs   AsciiByteToBoolPair   (one u8 against a pair of u8)   *)
(*   ascii_bytes.rs  AsciiBytesToBoolPair  (a &[u8] against a pair)        *)
(*                                                                         *)
(* The library is pure, so the state machine is a caller: it constructs a  *)
(* pair with one of the constructors, optionally folds its case with       *)
(* into_lower / into_upper, and calls one of the convert* entry points.    *)
(* The state records the pair under use, how it was obtained, and the      *)
(* argument and the returned Result of the last call.  The library is      *)
(* synchronous and single-threaded: a call returns before the next one is  *)
(* made, and the caller drops the returned Result before it goes on.       *)
(*                                                                         *)
(* Encodings: a u8 is a number in 0..U8_MAX; a char is its code point; a   *)
(* &[u8] is a sequence of u8; Result<bool, io::Error> is <<"Ok", b>> or    *)
(* <<"Err", kind, message>>; a message is the sequence of its literal text *)
(* followed by the values interpolated into it.                            *)
(***************************************************************************)
EXTENDS Naturals, Sequences, FiniteSets

VARIABLES kind, ctor, pair, prev, folds, op, input, result

vars == <<kind, ctor, pair, prev, folds, op, input, result>>

(***************************************************************************)
(* Bounds of the model.                                                    *)
(***************************************************************************)
\* longest custom token of the multi-symbol matcher
MaxLen == 2
\* how many into_lower / into_upper calls are chained on one pair
MaxFolds == 2

\* largest u8
U8_MAX == 255

Byte == 0..U8_MAX

(***************************************************************************)
(* Byte literals of the source (b'1', b"true", ...).                       *)
(***************************************************************************)
b_0 == 48
b_1 == 49
b_F == 70
b_N == 78
b_O == 79
b_T == 84
b_X == 88
b_Y == 89
b_a == 97
b_e == 101
b_f == 102
b_l == 108
b_n == 110
b_o == 111
b_r == 114
b_s == 115
b_t == 116
b_u == 117
b_x == 120
b_y == 121

\* arguments the caller passes to new_custom / new_from_true_value (u8):
\* the sentinel, the first and last letter of both cases and the bytes
\* next to them, a letter a Unicode fold reaches (U+212A -> 'k'), Latin-1
\* letters of both cases, and the largest u8
CustomBytes == {0, 64, 65, 90, 91, 96, 97, 107, 122, 123, 192, 224, U8_MAX}

\* characters above the 8-bit range the caller passes (U+0100, U+0178,
\* U+212A, U+FF21, U+10FFFF)
WideChars == {256, 376, 8490, 65313, 1114111}

Chars == Byte \cup WideChars

\* bytes the custom tokens of the multi-symbol matcher are made of
SeqAlphabet == {b_O, b_o, b_t}

RECURSIVE SeqsUpTo(_, _)
SeqsUpTo(S, n) ==
    IF n = 0 THEN {<<>>}
    ELSE LET shorter == SeqsUpTo(S, n - 1)
         IN  shorter \cup {Append(s, b) : s \in shorter, b \in S}

CustomTokens == SeqsUpTo(SeqAlphabet, MaxLen)

(***************************************************************************)
(* Result<bool, io::Error>                                                 *)
(***************************************************************************)
Ok(b) == <<"Ok", b>>

io_Error_new(k, msg) == <<"Err", k, msg>>

NoInput == <<>>
NoResult == <<"None">>

(***************************************************************************)
(* Standard-library primitives the source calls.                           *)
(***************************************************************************)
is_ascii_uppercase(b) == b >= 65 /\ b <= 90

is_ascii_lowercase(b) == b >= 97 /\ b <= 122

\* a variant that sets bit 5 of every byte that has it clear
u8_to_ascii_lowercase_or32(b) == IF (b \div 32) % 2 = 0 THEN b + 32 ELSE b

\* u8::to_ascii_lowercase: sets bit 5 of an ASCII uppercase letter
u8_to_ascii_lowercase(b) == IF is_ascii_uppercase(b) THEN b + 32 ELSE b

\* u8::to_ascii_uppercase: clears bit 5 of an ASCII lowercase letter
u8_to_ascii_uppercase(b) == IF is_ascii_lowercase(b) THEN b - 32 ELSE b

\* char::to_ascii_lowercase: the same fold on a code point; every
\* non-ASCII character is returned unchanged
char_to_ascii_lowercase(c) == IF is_ascii_uppercase(c) THEN c + 32 ELSE c

\* u8::try_from(char): succeeds exactly for U+0000..U+00FF
u8_try_from_char(c) == IF c <= U8_MAX THEN Ok(c) ELSE <<"Err", "TryFromCharError">>

\* a variant that compares only the leading bytes of the input
slice_starts_with(a, b) ==
    /\ Len(a) >= Len(b)
    /\ \A i \in 1..Len(b) : a[i] = b[i]

\* a variant that compares the bytes both slices have (zip) and no length
slice_eq_zip(a, b) ==
    \A i \in 1..(IF Len(a) < Len(b) THEN Len(a) ELSE Len(b)) : a[i] = b[i]

\* &[u8] == &[u8]: same length and the same byte at every index
slice_eq(a, b) ==
    /\ Len(a) = Len(b)
    /\ \A i \in 1..Len(a) : a[i] = b[i]

(***************************************************************************)
(* ascii_byte.rs: AsciiByteToBoolPair                                      *)
(***************************************************************************)
BytePair(t, f) == [true_value |-> t, false_value |-> f]

ascii_byte_default == BytePair(b_1, b_0)

ascii_byte_new_yn == BytePair(b_y, b_n)

ascii_byte_new_tf == BytePair(b_t, b_f)

ascii_byte_new_ox == BytePair(b_o, b_x)

ascii_byte_new_custom(true_value, false_value) == BytePair(true_value, false_value)

\* a variant whose sentinel is the digit b'0' instead of the zero byte
ascii_byte_new_from_true_value_digit(true_value) == BytePair(true_value, b_0)

ascii_byte_new_from_true_value(true_value) == BytePair(true_value, 0)

ascii_byte_new_o == ascii_byte_new_from_true_value(b_o)

ascii_byte_new_o_capital == ascii_byte_new_from_true_value(b_O)

ascii_byte_new_x == ascii_byte_new_from_true_value(b_x)

ascii_byte_new_x_capital == ascii_byte_new_from_true_value(b_X)

into_lower(self) ==
    BytePair(u8_to_ascii_lowercase(self.true_value),
             u8_to_ascii_lowercase(self.false_value))

\* a variant that folds the true value only
into_upper_true_only(self) ==
    BytePair(u8_to_ascii_uppercase(self.true_value), self.false_value)

into_upper(self) ==
    BytePair(u8_to_ascii_uppercase(self.true_value),
             u8_to_ascii_uppercase(self.false_value))

invalid_char2error(invalid_char) ==
    io_Error_new("InvalidInput", <<"Invalid boolean representation: ", invalid_char>>)

\* a variant that tests the false value first
ascii_byte_convert_false_first(self, x) ==
    IF x = self.false_value THEN Ok(FALSE)
    ELSE IF x = self.true_value THEN Ok(TRUE)
    ELSE io_Error_new("InvalidInput", <<"Invalid boolean representation">>)

\* a variant that embeds the offending byte in the message
ascii_byte_convert_embeds_value(self, x) ==
    IF x = self.true_value THEN Ok(TRUE)
    ELSE IF x = self.false_value THEN Ok(FALSE)
    ELSE io_Error_new("InvalidInput", <<"Invalid boolean representation: ", x>>)

ascii_byte_convert(self, x) ==
    IF x = self.true_value THEN Ok(TRUE)
    ELSE IF x = self.false_value THEN Ok(FALSE)
    ELSE io_Error_new("InvalidInput", <<"Invalid boolean representation">>)

\* a variant that folds the input to upper case
convert_lower_folds_upper(self, x) == ascii_byte_convert(self, u8_to_ascii_uppercase(x))

convert_lower(self, x) == ascii_byte_convert(self, u8_to_ascii_lowercase(x))

\* a variant that narrows by truncation (input as u8) instead of try_into
convert_ascii_char_truncating(self, c) == ascii_byte_convert(self, c % (U8_MAX + 1))

convert_ascii_char(self, c) ==
    LET u == u8_try_from_char(c)
    IN  IF u[1] = "Ok" THEN ascii_byte_convert(self, u[2])
        ELSE invalid_char2error(c)

\* the Unicode simple lower-case mapping, on the characters of Chars
UnicodeLower(c) ==
    IF c >= 65 /\ c <= 90 THEN c + 32
    ELSE IF c >= 192 /\ c <= 222 /\ c # 215 THEN c + 32
    ELSE IF c = 256 THEN 257
    ELSE IF c = 376 THEN 255
    ELSE IF c = 8490 THEN 107
    ELSE IF c = 65313 THEN 65345
    ELSE c

\* a variant that folds with the Unicode mapping (char::to_lowercase)
convert_ascii_char_lower_unicode(self, c) == convert_ascii_char(self, UnicodeLower(c))

convert_ascii_char_lower(self, c) == convert_ascii_char(self, char_to_ascii_lowercase(c))

(***************************************************************************)
(* ascii_bytes.rs: AsciiBytesToBoolPair                                    *)
(***************************************************************************)
BytesPair(t, f) == [true_value |-> t, false_value |-> f]

ascii_bytes_default == BytesPair(<<b_t, b_r, b_u, b_e>>, <<b_f, b_a, b_l, b_s, b_e>>)

ascii_bytes_new_yes_no == BytesPair(<<b_y, b_e, b_s>>, <<b_n, b_o>>)

ascii_bytes_new_y_n == BytesPair(<<b_y>>, <<b_n>>)

ascii_bytes_new_o_x == BytesPair(<<b_o>>, <<b_x>>)

ascii_bytes_new_t_f == BytesPair(<<b_t>>, <<b_f>>)

ascii_bytes_new_on_off == BytesPair(<<b_o, b_n>>, <<b_o, b_f, b_f>>)

ascii_bytes_new_yes_no_capitalised == BytesPair(<<b_Y, b_e, b_s>>, <<b_N, b_o>>)

ascii_bytes_new_on_off_capitalised == BytesPair(<<b_O, b_n>>, <<b_O, b_f, b_f>>)

ascii_bytes_new_true_false_capitalised ==
    BytesPair(<<b_T, b_r, b_u, b_e>>, <<b_F, b_a, b_l, b_s, b_e>>)

ascii_bytes_new_true_false == BytesPair(<<b_t, b_r, b_u, b_e>>, <<b_f, b_a, b_l, b_s, b_e>>)

ascii_bytes_new_custom(true_value, false_value) == BytesPair(true_value, false_value)

ascii_bytes_new_from_true_value(tv) == BytesPair(tv, <<>>)

ascii_bytes_new_o == ascii_bytes_new_from_true_value(<<b_o>>)

ascii_bytes_new_o_capital == ascii_bytes_new_from_true_value(<<b_O>>)

ascii_bytes_new_x == ascii_bytes_new_from_true_value(<<b_x>>)

ascii_bytes_new_x_capital == ascii_bytes_new_from_true_value(<<b_X>>)

\* a variant that accepts any input starting with a configured token
ascii_bytes_convert_prefix(self, x) ==
    IF slice_starts_with(x, self.true_value) THEN Ok(TRUE)
    ELSE IF slice_starts_with(x, self.false_value) THEN Ok(FALSE)
    ELSE io_Error_new("InvalidInput", <<"Invalid boolean representation">>)

ascii_bytes_convert(self, x) ==
    IF slice_eq(x, self.true_value) THEN Ok(TRUE)
    ELSE IF slice_eq(x, self.false_value) THEN Ok(FALSE)
    ELSE io_Error_new("InvalidInput", <<"Invalid boolean representation">>)

\* the tokens of the named constructors, and the inputs of the unit tests
\* that extend one of them ("tt", "truest")
NamedPairs ==
    {ascii_bytes_default, ascii_bytes_new_yes_no, ascii_bytes_new_y_n,
     ascii_bytes_new_o_x, ascii_bytes_new_t_f, ascii_bytes_new_on_off,
     ascii_bytes_new_yes_no_capitalised, ascii_bytes_new_on_off_capitalised,
     ascii_bytes_new_true_false_capitalised, ascii_bytes_new_x,
     ascii_bytes_new_x_capital}

TokenInputs ==
    {p.true_value : p \in NamedPairs} \cup {p.false_value : p \in NamedPairs}
        \cup {<<b_t, b_t>>, <<b_t, b_r, b_u, b_e, b_s, b_t>>, <<b_t, b_r, b_u>>}
        \cup SeqsUpTo(SeqAlphabet, MaxLen + 1)

(***************************************************************************)
(* The caller.                                                             *)
(*   kind    "byte" or "bytes": which matcher the pair belongs to          *)
(*   ctor    the constructor that built the pair                           *)
(*   pair    the pair in use                                               *)
(*   prev    the pair the last into_lower / into_upper was applied to      *)
(*           (the pair as constructed, before any fold)                    *)
(*   folds   the folds applied since construction, oldest first            *)
(*   op      the last operation                                            *)
(*   input   the argument of the last convert* call                        *)
(*   result  what it returned                                              *)
(***************************************************************************)
\* a call is made only when no Result is outstanding
Construct(k, c, p) ==
    /\ kind' = k
    /\ ctor' = c
    /\ pair' = p
    /\ prev' = p
    /\ folds' = <<>>
    /\ op' = "new"
    /\ input' = NoInput
    /\ result' = NoResult

Init ==
    /\ kind = "byte"
    /\ ctor = "default"
    /\ pair = ascii_byte_default
    /\ prev = ascii_byte_default
    /\ folds = <<>>
    /\ op = "new"
    /\ input = NoInput
    /\ result = NoResult

Call_ascii_byte_default ==
    /\ result = NoResult
    /\ Construct("byte", "default", ascii_byte_default)

Call_ascii_byte_new_yn ==
    /\ result = NoResult
    /\ Construct("byte", "new_yn", ascii_byte_new_yn)

Call_ascii_byte_new_tf ==
    /\ result = NoResult
    /\ Construct("byte", "new_tf", ascii_byte_new_tf)

Call_ascii_byte_new_ox ==
    /\ result = NoResult
    /\ Construct("byte", "new_ox", ascii_byte_new_ox)

Call_ascii_byte_new_o ==
    /\ result = NoResult
    /\ Construct("byte", "new_o", ascii_byte_new_o)

Call_ascii_byte_new_o_capital ==
    /\ result = NoResult
    /\ Construct("byte", "new_o_capital", ascii_byte_new_o_capital)

Call_ascii_byte_new_x ==
    /\ result = NoResult
    /\ Construct("byte", "new_x", ascii_byte_new_x)

Call_ascii_byte_new_x_capital ==
    /\ result = NoResult
    /\ Construct("byte", "new_x_capital", ascii_byte_new_x_capital)

Call_ascii_byte_new_custom ==
    /\ result = NoResult
    /\ \E t \in CustomBytes, f \in CustomBytes :
          Construct("byte", "new_custom", ascii_byte_new_custom(t, f))

Call_ascii_byte_new_from_true_value ==
    /\ result = NoResult
    /\ \E t \in CustomBytes :
          Construct("byte", "new_from_true_value", ascii_byte_new_from_true_value(t))

Call_ascii_bytes_default ==
    /\ result = NoResult
    /\ Construct("bytes", "default", ascii_bytes_default)

Call_ascii_bytes_new_yes_no ==
    /\ result = NoResult
    /\ Construct("bytes", "new_yes_no", ascii_bytes_new_yes_no)

Call_ascii_bytes_new_y_n ==
    /\ result = NoResult
    /\ Construct("bytes", "new_y_n", ascii_bytes_new_y_n)

Call_ascii_bytes_new_o_x ==
    /\ result = NoResult
    /\ Construct("bytes", "new_o_x", ascii_bytes_new_o_x)

Call_ascii_bytes_new_t_f ==
    /\ result = NoResult
    /\ Construct("bytes", "new_t_f", ascii_bytes_new_t_f)

Call_ascii_bytes_new_on_off ==
    /\ result = NoResult
    /\ Construct("bytes", "new_on_off", ascii_bytes_new_on_off)

Call_ascii_bytes_new_yes_no_capitalised ==
    /\ result = NoResult
    /\ Construct("bytes", "new_yes_no_capitalised", ascii_bytes_new_yes_no_capitalised)

Call_ascii_bytes_new_on_off_capitalised ==
    /\ result = NoResult
    /\ Construct("bytes", "new_on_off_capitalised", ascii_bytes_new_on_off_capitalised)

Call_ascii_bytes_new_true_false_capitalised ==
    /\ result = NoResult
    /\ Construct("bytes", "new_true_false_capitalised", ascii_bytes_new_true_false_capitalised)

Call_ascii_bytes_new_true_false ==
    /\ result = NoResult
    /\ Construct("bytes", "new_true_false", ascii_bytes_new_true_false)

Call_ascii_bytes_new_o ==
    /\ result = NoResult
    /\ Construct("bytes", "new_o", ascii_bytes_new_o)

Call_ascii_bytes_new_o_capital ==
    /\ result = NoResult
    /\ Construct("bytes", "new_o_capital", ascii_bytes_new_o_capital)

Call_ascii_bytes_new_x ==
    /\ result = NoResult
    /\ Construct("bytes", "new_x", ascii_bytes_new_x)

Call_ascii_bytes_new_x_capital ==
    /\ result = NoResult
    /\ Construct("bytes", "new_x_capital", ascii_bytes_new_x_capital)

Call_ascii_bytes_new_custom ==
    /\ result = NoResult
    /\ \E t \in CustomTokens, f \in CustomTokens :
          Construct("bytes", "new_custom", ascii_bytes_new_custom(t, f))

Call_ascii_bytes_new_from_true_value ==
    /\ result = NoResult
    /\ \E t \in CustomTokens :
          Construct("bytes", "new_from_true_value", ascii_bytes_new_from_true_value(t))

\* into_lower / into_upper take the pair by value and return the folded pair
Fold(name, f, p) ==
    /\ kind = "byte"
    /\ Len(folds) < MaxFolds
    /\ pair' = p
    /\ prev' = pair
    /\ folds' = Append(folds, f)
    /\ op' = name
    /\ input' = NoInput
    /\ result' = NoResult
    /\ UNCHANGED <<kind, ctor>>

Call_into_lower ==
    /\ result = NoResult
    /\ Fold("into_lower", "lower", into_lower(pair))

Call_into_upper ==
    /\ result = NoResult
    /\ Fold("into_upper", "upper", into_upper(pair))

\* the convert* entry points borrow the pair and return a Result
Convert(name, x, r) ==
    /\ op' = name
    /\ input' = x
    /\ result' = r
    /\ UNCHANGED <<kind, ctor, pair, prev, folds>>

Call_ascii_byte_convert ==
    /\ result = NoResult
    /\ kind = "byte"
    /\ \E x \in Byte : Convert("convert", x, ascii_byte_convert(pair, x))

Call_convert_lower ==
    /\ result = NoResult
    /\ kind = "byte"
    /\ \E x \in Byte : Convert("convert_lower", x, convert_lower(pair, x))

Call_convert_ascii_char ==
    /\ result = NoResult
    /\ kind = "byte"
    /\ \E c \in Chars : Convert("convert_ascii_char", c, convert_ascii_char(pair, c))

Call_convert_ascii_char_lower ==
    /\ result = NoResult
    /\ kind = "byte"
    /\ \E c \in Chars :
          Convert("convert_ascii_char_lower", c, convert_ascii_char_lower(pair, c))

Call_ascii_bytes_convert ==
    /\ result = NoResult
    /\ kind = "bytes"
    /\ \E x \in TokenInputs : Convert("convert", x, ascii_bytes_convert(pair, x))

\* the Result of the last call goes out of scope; the pair is kept
DropResult ==
    /\ result # NoResult
    /\ op' = "idle"
    /\ input' = NoInput
    /\ result' = NoResult
    /\ UNCHANGED <<kind, ctor, pair, prev, folds>>

Next ==
    \/ Call_ascii_byte_default
    \/ Call_ascii_byte_new_yn
    \/ Call_ascii_byte_new_tf
    \/ Call_ascii_byte_new_ox
    \/ Call_ascii_byte_new_o
    \/ Call_ascii_byte_new_o_capital
    \/ Call_ascii_byte_new_x
    \/ Call_ascii_byte_new_x_capital
    \/ Call_ascii_byte_new_custom
    \/ Call_ascii_byte_new_from_true_value
    \/ Call_ascii_bytes_default
    \/ Call_ascii_bytes_new_yes_no
    \/ Call_ascii_bytes_new_y_n
    \/ Call_ascii_bytes_new_o_x
    \/ Call_ascii_bytes_new_t_f
    \/ Call_ascii_bytes_new_on_off
    \/ Call_ascii_bytes_new_yes_no_capitalised
    \/ Call_ascii_bytes_new_on_off_capitalised
    \/ Call_ascii_bytes_new_true_false_capitalised
    \/ Call_ascii_bytes_new_true_false
    \/ Call_ascii_bytes_new_o
    \/ Call_ascii_bytes_new_o_capital
    \/ Call_ascii_bytes_new_x
    \/ Call_ascii_bytes_new_x_capital
    \/ Call_ascii_bytes_new_custom
    \/ Call_ascii_bytes_new_from_true_value
    \/ Call_into_lower
    \/ Call_into_upper
    \/ Call_ascii_byte_convert
    \/ Call_convert_lower
    \/ Call_convert_ascii_char
    \/ Call_convert_ascii_char_lower
    \/ Call_ascii_bytes_convert
    \/ DropResult

Spec == Init /\ [][Next]_vars

(***************************************************************************)
(* Properties.  The expected results are written out here from the         *)
(* statements, independently of the operators above.                       *)
(***************************************************************************)
RTrue == <<"Ok", TRUE>>

RFalse == <<"Ok", FALSE>>

FixedError == <<"Err", "InvalidInput", <<"Invalid boolean representation">>>>

CharError(c) == <<"Err", "InvalidInput", <<"Invalid boolean representation: ", c>>>>

IsInvalidInput(r) == r[1] = "Err" /\ r[2] = "InvalidInput"

\* ascii_lower / ascii_upper: only 'A'..'Z' (resp. 'a'..'z') change
AsciiLower(x) == IF x \in 65..90 THEN x + 32 ELSE x

AsciiUpper(x) == IF x \in 97..122 THEN x - 32 ELSE x

\* the three-way classification: true match, else false match, else error
Classify(t, f, x) ==
    IF x = t THEN RTrue ELSE IF x = f THEN RFalse ELSE FixedError

\* narrowing of a character, then the classification
ClassifyChar(t, f, c) ==
    IF c > 255 THEN CharError(c) ELSE Classify(t, f, c)

LastFold == IF folds = <<>> THEN "none" ELSE folds[Len(folds)]

PresenceCtors == {"new_from_true_value", "new_o", "new_o_capital", "new_x", "new_x_capital"}

Sentinel == IF kind = "byte" THEN 0 ELSE <<>>

Token(b) == IF kind = "byte" THEN b ELSE <<b>>

\* C1: the single-symbol convert returns Ok(true) when the input is the true
\* value, Ok(false) when it is the false value (and not the true value), and
\* otherwise an InvalidInput error whose message is exactly "Invalid boolean
\* representation", with no value embedded.
C1_ByteConvert ==
    (kind = "byte" /\ op = "convert") =>
        /\ input = pair.true_value => result = RTrue
        /\ (input = pair.false_value /\ input # pair.true_value) => result = RFalse
        /\ (input # pair.true_value /\ input # pair.false_value) => result = FixedError

\* C1 witness: default().convert(b'2') took the error branch
C1_Witness ==
    /\ kind = "byte" /\ ctor = "default" /\ folds = <<>>
    /\ op = "convert" /\ input = 50 /\ result = FixedError

\* C2: the multi-symbol convert returns Ok(true) exactly on sequence equality
\* with the true value, Ok(false) only on sequence equality with the false
\* value, and fails with InvalidInput / "Invalid boolean representation" on
\* every input whose length differs from both configured lengths.
C2_BytesConvert ==
    (kind = "bytes" /\ op = "convert") =>
        /\ result = RTrue <=> input = pair.true_value
        /\ result = RFalse => input = pair.false_value
        /\ (input = pair.false_value /\ input # pair.true_value) => result = RFalse
        /\ (Len(input) # Len(pair.true_value) /\ Len(input) # Len(pair.false_value))
              => result = FixedError

\* C2 witness: new_t_f().convert(b"tt") is rejected
C2_Witness ==
    /\ kind = "bytes" /\ ctor = "new_t_f"
    /\ op = "convert" /\ input = <<b_t, b_t>> /\ result = FixedError

\* C3 as stated: for every true value t, a presence pair converts t to
\* Ok(true), the sentinel to Ok(false), and fails on every other input.
C3_PresenceAsStated ==
    (ctor \in PresenceCtors /\ folds = <<>>) =>
        /\ pair.false_value = Sentinel
        /\ op = "convert" =>
              /\ input = pair.true_value => result = RTrue
              /\ input = Sentinel => result = RFalse
              /\ (input # pair.true_value /\ input # Sentinel) => IsInvalidInput(result)

\* C3: for every true value t other than the sentinel, a presence pair
\* (new_from_true_value(t), new_o, new_o_capital, new_x, new_x_capital) converts
\* t to Ok(true), the sentinel (byte 0, the empty sequence) to Ok(false), and
\* fails with InvalidInput on every other input, case-sensitively; when t is
\* the sentinel itself the sentinel converts to Ok(true).
C3_Presence ==
    (ctor \in PresenceCtors /\ folds = <<>>) =>
        /\ pair.false_value = Sentinel
        /\ ctor = "new_o" => pair.true_value = Token(b_o)
        /\ ctor = "new_o_capital" => pair.true_value = Token(b_O)
        /\ ctor = "new_x" => pair.true_value = Token(b_x)
        /\ ctor = "new_x_capital" => pair.true_value = Token(b_X)
        /\ op = "convert" =>
              /\ input = pair.true_value => result = RTrue
              /\ (input = Sentinel /\ pair.true_value # Sentinel) => result = RFalse
              /\ (input # pair.true_value /\ input # Sentinel) => IsInvalidInput(result)

\* C3 witness: new_o_capital() rejects the lower-case 'o'
C3_Witness ==
    /\ kind = "byte" /\ ctor = "new_o_capital" /\ folds = <<>>
    /\ op = "convert" /\ input = b_o /\ result = FixedError

\* C4: convert_ascii_char fails with InvalidInput and the message "Invalid
\* boolean representation: {c}" on every character above U+00FF, whatever
\* the pair, and on a character in 0..255 returns what convert returns on
\* that byte (so a non-matching one fails with the fixed message).
C4_ConvertAsciiChar ==
    (kind = "byte" /\ op = "convert_ascii_char") =>
        /\ input > 255 => result = CharError(input)
        /\ input <= 255 => result = Classify(pair.true_value, pair.false_value, input)

\* C4 witness: U+212A does not fit in a byte
C4_Witness ==
    /\ kind = "byte" /\ op = "convert_ascii_char"
    /\ input = 8490 /\ result = CharError(8490)

\* C5 as stated: convert_ascii_char_lower returns convert_ascii_char on the
\* Unicode lower case of the character.
C5_UnicodeFoldAsStated ==
    (kind = "byte" /\ op = "convert_ascii_char_lower") =>
        result = ClassifyChar(pair.true_value, pair.false_value, UnicodeLower(input))

\* C5: convert_ascii_char_lower folds the character with the ASCII-only fold
\* ('A'..'Z' to 'a'..'z', every other character unchanged) and returns
\* convert_ascii_char on the folded character.
C5_AsciiFold ==
    (kind = "byte" /\ op = "convert_ascii_char_lower") =>
        result = ClassifyChar(pair.true_value, pair.false_value, AsciiLower(input))

\* C5 witness: U+00C0 is not folded to U+00E0, the configured true value
C5_Witness ==
    /\ kind = "byte" /\ op = "convert_ascii_char_lower"
    /\ pair.true_value = 224 /\ input = 192 /\ result = FixedError

\* C6: convert_lower(pair, x) is convert(pair, ascii_lower(x)), where
\* ascii_lower changes 'A'..'Z' only.
C6_ConvertLower ==
    (kind = "byte" /\ op = "convert_lower") =>
        result = Classify(pair.true_value, pair.false_value, AsciiLower(input))

\* C6 witness: new_tf().convert_lower(b'T') is Ok(true)
C6_Witness ==
    /\ kind = "byte" /\ ctor = "new_tf" /\ folds = <<>>
    /\ op = "convert_lower" /\ input = b_T /\ result = RTrue

\* C7: into_lower (into_upper) yields the pair of the ASCII lower (upper)
\* case of both fields, applying either twice is the same as once, and
\* new_tf().into_upper() converts 'T' to true and 'F' to false.
C7_IntoLowerUpper ==
    /\ LastFold = "lower" =>
          /\ pair.true_value = AsciiLower(prev.true_value)
          /\ pair.false_value = AsciiLower(prev.false_value)
    /\ LastFold = "upper" =>
          /\ pair.true_value = AsciiUpper(prev.true_value)
          /\ pair.false_value = AsciiUpper(prev.false_value)
    /\ (Len(folds) >= 2 /\ folds[Len(folds) - 1] = LastFold) => pair = prev
    /\ (ctor = "new_tf" /\ folds = <<"upper">> /\ op = "convert") =>
          /\ input = b_T => result = RTrue
          /\ input = b_F => result = RFalse

\* C7 witness: new_tf().into_upper().into_upper() converts 'F' to false
C7_Witness ==
    /\ ctor = "new_tf" /\ folds = <<"upper", "upper">>
    /\ prev.false_value = b_F
    /\ op = "convert" /\ input = b_F /\ result = RFalse

\* C8 as stated: convert on the empty sequence fails whenever the empty
\* sequence is not the configured false value.
C8_EmptyAsStated ==
    (kind = "bytes" /\ op = "convert" /\ input = <<>> /\ pair.false_value # <<>>)
        => IsInvalidInput(result)

\* C8: convert on the empty sequence fails with InvalidInput whenever the
\* empty sequence is neither the configured true value nor the configured
\* false value.
C8_Empty ==
    (kind = "bytes" /\ op = "convert" /\ input = <<>>
        /\ pair.false_value # <<>> /\ pair.true_value # <<>>)
        => result = FixedError

\* C8 witness: default().convert(b"") is rejected
C8_Witness ==
    /\ kind = "bytes" /\ ctor = "default"
    /\ op = "convert" /\ input = <<>> /\ result = FixedError

\* C9: a pair whose true value equals its false value is accepted; convert
\* on that value returns Ok(true), and no entry point returns Ok(false) on
\* any input.
C9_Degenerate ==
    (pair.true_value = pair.false_value /\ result # NoResult) =>
        /\ result # RFalse
        /\ (op = "convert" /\ input = pair.true_value) => result = RTrue

\* C9 witness: new_from_true_value(0).convert(0) is Ok(true)
C9_Witness ==
    /\ kind = "byte" /\ ctor = "new_from_true_value" /\ folds = <<>>
    /\ pair.true_value = 0 /\ pair.false_value = 0
    /\ op = "convert" /\ input = 0 /\ result = RTrue

\* C10: with an upper-case letter as true value (false value), convert_lower
\* and convert_ascii_char_lower never return Ok(true) (Ok(false)); on
\* pair.into_lower(), convert_lower(x) is Ok(true) exactly when
\* ascii_lower(x) is ascii_lower of the true value the pair had.
C10_LowerEntryPoints ==
    (kind = "byte" /\ op \in {"convert_lower", "convert_ascii_char_lower"}) =>
        /\ pair.true_value \in 65..90 => result # RTrue
        /\ pair.false_value \in 65..90 => result # RFalse
        /\ (LastFold = "lower" /\ op = "convert_lower") =>
              /\ result = RTrue <=> AsciiLower(input) = AsciiLower(prev.true_value)
              /\ result = RTrue <=> AsciiLower(input) = AsciiLower(pair.true_value)

\* C10 witness: new_o_capital().convert_lower(b'O') is an error
C10_Witness ==
    /\ kind = "byte" /\ ctor = "new_o_capital" /\ folds = <<>>
    /\ op = "convert_lower" /\ input = b_O /\ result = FixedError

====
